---- MODULE Spec2Model ----
(***************************************************************************)
(* Vortexje: trailing-edge topology, trailing-edge bisector and wake       *)
(* emission velocity of a LiftingSurface, and the DummyBoundaryLayer.      *)
(*                                                                         *)
(* Numbers are exact rationals (numerator over a positive denominator, in  *)
(* lowest terms); a denominator of 0 is the undefined value the code       *)
(* produces when it divides 0 by 0 (NaN).  Meshes are chosen so that every *)
(* norm the code takes is rational, which keeps normalize() exact.         *)
(***************************************************************************)
EXTENDS Integers, Sequences, FiniteSets, TLC

VARIABLES
    nodes,                          \* Surface::nodes: node id -> position
    upper_nodes,                    \* LiftingSurface::upper_nodes (chordwise x spanwise node ids)
    lower_nodes,                    \* LiftingSurface::lower_nodes
    upper_panels,                   \* LiftingSurface::upper_panels
    lower_panels,                   \* LiftingSurface::lower_panels
    wake_emission_follow_bisector,  \* Parameters::wake_emission_follow_bisector
    normalize_checks_zero,          \* build: does Eigen's normalize() leave a zero vector alone
    boundary_layer,                 \* data members of the DummyBoundaryLayer (it has none)
    last,                           \* the most recent call and what it returned
    wake,                           \* emission velocities shed so far, oldest first
    bl_calls                        \* boundary-layer calls made so far, oldest first

mesh == <<nodes, upper_nodes, lower_nodes, upper_panels, lower_panels>>
vars == <<nodes, upper_nodes, lower_nodes, upper_panels, lower_panels,
          wake_emission_follow_bisector, normalize_checks_zero, boundary_layer,
          last, wake, bl_calls>>

(***************************************************************************)
(* Bounds of the model.                                                    *)
(***************************************************************************)
MaxRows == 3
MaxCols == 3
MaxWake == 2
MaxBlCalls == 3

(***************************************************************************)
(* Exact arithmetic: the double and Eigen::Vector3d operations used.       *)
(***************************************************************************)
Abs(a) == IF a < 0 THEN -a ELSE a

RECURSIVE Gcd(_, _)
Gcd(a, b) == IF b = 0 THEN a ELSE Gcd(b, a % b)

NaN == [n |-> 0, d |-> 0]

Rat(n, d) ==
    IF d = 0 THEN NaN
    ELSE LET s == IF d < 0 THEN -1 ELSE 1
             g == Gcd(Abs(n), Abs(d))
         IN  [n |-> (s * n) \div g, d |-> (s * d) \div g]

NaNVec == [x |-> 0, y |-> 0, z |-> 0, d |-> 0]

Vec(x, y, z, d) ==
    IF d = 0 THEN NaNVec
    ELSE LET s == IF d < 0 THEN -1 ELSE 1
             g == Gcd(Gcd(Gcd(Abs(d), Abs(x)), Abs(y)), Abs(z))
         IN  [x |-> (s * x) \div g, y |-> (s * y) \div g, z |-> (s * z) \div g,
              d |-> (s * d) \div g]

Vector3d(t) == Vec(t[1], t[2], t[3], 1)

Zero == Vector3d(<<0, 0, 0>>)

IsNaN(a) == a.d = 0

VAdd(a, b) ==
    IF IsNaN(a) \/ IsNaN(b) THEN NaNVec
    ELSE Vec(a.x * b.d + b.x * a.d, a.y * b.d + b.y * a.d, a.z * b.d + b.z * a.d, a.d * b.d)

VNeg(a) == IF IsNaN(a) THEN NaNVec ELSE Vec(-a.x, -a.y, -a.z, a.d)

VSub(a, b) == VAdd(a, VNeg(b))

Dot(a, b) ==
    IF IsNaN(a) \/ IsNaN(b) THEN NaN
    ELSE Rat(a.x * b.x + a.y * b.y + a.z * b.z, a.d * b.d)

Cross(a, b) ==
    IF IsNaN(a) \/ IsNaN(b) THEN NaNVec
    ELSE Vec(a.y * b.z - a.z * b.y, a.z * b.x - a.x * b.z, a.x * b.y - a.y * b.x, a.d * b.d)

Scale(s, a) ==
    IF IsNaN(s) \/ IsNaN(a) THEN NaNVec
    ELSE Vec(s.n * a.x, s.n * a.y, s.n * a.z, s.d * a.d)

SNeg(s) == IF IsNaN(s) THEN NaN ELSE Rat(-s.n, s.d)

SquaredNorm(a) == a.x * a.x + a.y * a.y + a.z * a.z

Sqrt(k) == CHOOSE r \in 0..k : r * r = k

\* Eigen's normalize(): divide by the norm.  Of a zero vector that is 0/0 in
\* every component, unless the Eigen of the build skips a zero squared norm.
normalize(a) ==
    IF IsNaN(a) THEN NaNVec
    ELSE IF SquaredNorm(a) = 0
         THEN IF normalize_checks_zero THEN a ELSE NaNVec
         ELSE Vec(a.x, a.y, a.z, Sqrt(SquaredNorm(a)))

(***************************************************************************)
(* Eigen matrices of ids: dimensions and coefficients, 0-based.            *)
(***************************************************************************)
\* A matrix is [rows, cols, at], at a function on (0..rows-1) \X (0..cols-1).
InRange(m, r, c) == r \in 0..(m.rows - 1) /\ c \in 0..(m.cols - 1)

Undefined == -1

\* m(r, c): unchecked access; outside the matrix the value is undefined.  The
\* calls below are made with valid indices, and C10 shows that
\* wake_emission_velocity then stays inside the grids.
Coeff(m, r, c) == IF InRange(m, r, c) THEN m.at[<<r, c>>] ELSE Undefined

\* m(r, c) together with the coefficient it reads.
Read(m, name, r, c) == [value |-> Coeff(m, r, c), access |-> {<<name, r, c>>}]

\* nodes[id]; with an undefined id the position is undefined.
Position(id) == IF id \in DOMAIN nodes THEN nodes[id] ELSE NaNVec

(***************************************************************************)
(* LiftingSurface: the accessors.  A lookup returns [value, access]: the   *)
(* id found and the grid coefficient read to find it.                      *)
(***************************************************************************)
n_chordwise_nodes == upper_nodes.rows

n_chordwise_panels == upper_panels.rows

n_spanwise_nodes == upper_nodes.cols

n_spanwise_panels == upper_panels.cols

trailing_edge_node(index) == Read(upper_nodes, "upper_nodes", upper_nodes.rows - 1, index)

trailing_edge_upper_panel(index) ==
    Read(upper_panels, "upper_panels", upper_panels.rows - 1, index)

\* Mutant: the lower lookup reads the upper panel grid.
trailing_edge_lower_panel_reads_upper(index) ==
    Read(upper_panels, "upper_panels", upper_panels.rows - 1, index)

trailing_edge_lower_panel(index) ==
    Read(lower_panels, "lower_panels", lower_panels.rows - 1, index)

(***************************************************************************)
(* LiftingSurface::trailing_edge_bisector: [value, access].                *)
(***************************************************************************)
\* Mutant: the sum of the unit tangents is returned without the final normalize().
trailing_edge_bisector_sum_not_normalized(node_index) ==
    LET u1 == Read(upper_nodes, "upper_nodes", upper_nodes.rows - 1, node_index)
        u0 == Read(upper_nodes, "upper_nodes", upper_nodes.rows - 2, node_index)
        l1 == Read(lower_nodes, "lower_nodes", lower_nodes.rows - 1, node_index)
        l0 == Read(lower_nodes, "lower_nodes", lower_nodes.rows - 2, node_index)
        upper == normalize(VSub(Position(u1.value), Position(u0.value)))
        lower == normalize(VSub(Position(l1.value), Position(l0.value)))
    IN  [value |-> VAdd(upper, lower),
         access |-> u1.access \cup u0.access \cup l1.access \cup l0.access]

trailing_edge_bisector(node_index) ==
    LET u1 == Read(upper_nodes, "upper_nodes", upper_nodes.rows - 1, node_index)
        u0 == Read(upper_nodes, "upper_nodes", upper_nodes.rows - 2, node_index)
        l1 == Read(lower_nodes, "lower_nodes", lower_nodes.rows - 1, node_index)
        l0 == Read(lower_nodes, "lower_nodes", lower_nodes.rows - 2, node_index)
        upper == normalize(VSub(Position(u1.value), Position(u0.value)))
        lower == normalize(VSub(Position(l1.value), Position(l0.value)))
    IN  [value |-> normalize(VAdd(upper, lower)),
         access |-> u1.access \cup u0.access \cup l1.access \cup l0.access]

(***************************************************************************)
(* LiftingSurface::wake_emission_velocity: [value, branch, access], the    *)
(* branch being the assignment to wake_emission_velocity that was reached. *)
(***************************************************************************)
\* Mutant: the chordwise node count is not tested.
wake_emission_velocity_no_row_check(apparent_velocity, node_index) ==
    IF wake_emission_follow_bisector
    THEN LET prev == IF node_index > 0
                     THEN trailing_edge_node(node_index - 1)
                     ELSE trailing_edge_node(node_index)
             next == IF node_index < n_spanwise_nodes - 1
                     THEN trailing_edge_node(node_index + 1)
                     ELSE trailing_edge_node(node_index)
             prev_node == prev.value
             next_node == next.value
             bis == trailing_edge_bisector(node_index)
             bisector == bis.value
             access == prev.access \cup next.access \cup bis.access
         IN  IF prev_node # next_node
             THEN LET span_direction == VSub(Position(next_node), Position(prev_node))
                      wake_normal == normalize(Cross(span_direction, bisector))
                  IN  [value |-> VNeg(VSub(apparent_velocity,
                                           Scale(Dot(apparent_velocity, wake_normal),
                                                 wake_normal))),
                       branch |-> "plane", access |-> access]
             ELSE [value |-> Scale(SNeg(Dot(apparent_velocity, bisector)), bisector),
                   branch |-> "line", access |-> access]
    ELSE [value |-> VNeg(apparent_velocity), branch |-> "direct", access |-> {}]

\* Mutant: the next neighbour is clamped one column too early.
wake_emission_velocity_next_stops_early(apparent_velocity, node_index) ==
    IF wake_emission_follow_bisector /\ n_chordwise_nodes > 1
    THEN LET prev == IF node_index > 0
                     THEN trailing_edge_node(node_index - 1)
                     ELSE trailing_edge_node(node_index)
             next == IF node_index < n_spanwise_nodes - 2
                     THEN trailing_edge_node(node_index + 1)
                     ELSE trailing_edge_node(node_index)
             prev_node == prev.value
             next_node == next.value
             bis == trailing_edge_bisector(node_index)
             bisector == bis.value
             access == prev.access \cup next.access \cup bis.access
         IN  IF prev_node # next_node
             THEN LET span_direction == VSub(Position(next_node), Position(prev_node))
                      wake_normal == normalize(Cross(span_direction, bisector))
                  IN  [value |-> VNeg(VSub(apparent_velocity,
                                           Scale(Dot(apparent_velocity, wake_normal),
                                                 wake_normal))),
                       branch |-> "plane", access |-> access]
             ELSE [value |-> Scale(SNeg(Dot(apparent_velocity, bisector)), bisector),
                   branch |-> "line", access |-> access]
    ELSE [value |-> VNeg(apparent_velocity), branch |-> "direct", access |-> {}]

\* Mutant: the next neighbour is clamped one column too late.
wake_emission_velocity_next_unclamped(apparent_velocity, node_index) ==
    IF wake_emission_follow_bisector /\ n_chordwise_nodes > 1
    THEN LET prev == IF node_index > 0
                     THEN trailing_edge_node(node_index - 1)
                     ELSE trailing_edge_node(node_index)
             next == IF node_index < n_spanwise_nodes
                     THEN trailing_edge_node(node_index + 1)
                     ELSE trailing_edge_node(node_index)
             prev_node == prev.value
             next_node == next.value
             bis == trailing_edge_bisector(node_index)
             bisector == bis.value
             access == prev.access \cup next.access \cup bis.access
         IN  IF prev_node # next_node
             THEN LET span_direction == VSub(Position(next_node), Position(prev_node))
                      wake_normal == normalize(Cross(span_direction, bisector))
                  IN  [value |-> VNeg(VSub(apparent_velocity,
                                           Scale(Dot(apparent_velocity, wake_normal),
                                                 wake_normal))),
                       branch |-> "plane", access |-> access]
             ELSE [value |-> Scale(SNeg(Dot(apparent_velocity, bisector)), bisector),
                   branch |-> "line", access |-> access]
    ELSE [value |-> VNeg(apparent_velocity), branch |-> "direct", access |-> {}]

\* Mutant: the configuration flag is not tested.
wake_emission_velocity_flag_ignored(apparent_velocity, node_index) ==
    IF n_chordwise_nodes > 1
    THEN LET prev == IF node_index > 0
                     THEN trailing_edge_node(node_index - 1)
                     ELSE trailing_edge_node(node_index)
             next == IF node_index < n_spanwise_nodes - 1
                     THEN trailing_edge_node(node_index + 1)
                     ELSE trailing_edge_node(node_index)
             prev_node == prev.value
             next_node == next.value
             bis == trailing_edge_bisector(node_index)
             bisector == bis.value
             access == prev.access \cup next.access \cup bis.access
         IN  IF prev_node # next_node
             THEN LET span_direction == VSub(Position(next_node), Position(prev_node))
                      wake_normal == normalize(Cross(span_direction, bisector))
                  IN  [value |-> VNeg(VSub(apparent_velocity,
                                           Scale(Dot(apparent_velocity, wake_normal),
                                                 wake_normal))),
                       branch |-> "plane", access |-> access]
             ELSE [value |-> Scale(SNeg(Dot(apparent_velocity, bisector)), bisector),
                   branch |-> "line", access |-> access]
    ELSE [value |-> VNeg(apparent_velocity), branch |-> "direct", access |-> {}]

wake_emission_velocity(apparent_velocity, node_index) ==
    IF wake_emission_follow_bisector /\ n_chordwise_nodes > 1
    THEN LET prev == IF node_index > 0
                     THEN trailing_edge_node(node_index - 1)
                     ELSE trailing_edge_node(node_index)
             next == IF node_index < n_spanwise_nodes - 1
                     THEN trailing_edge_node(node_index + 1)
                     ELSE trailing_edge_node(node_index)
             prev_node == prev.value
             next_node == next.value
             bis == trailing_edge_bisector(node_index)
             bisector == bis.value
             access == prev.access \cup next.access \cup bis.access
         IN  IF prev_node # next_node
             THEN LET span_direction == VSub(Position(next_node), Position(prev_node))
                      wake_normal == normalize(Cross(span_direction, bisector))
                  IN  [value |-> VNeg(VSub(apparent_velocity,
                                           Scale(Dot(apparent_velocity, wake_normal),
                                                 wake_normal))),
                       branch |-> "plane", access |-> access]
             ELSE [value |-> Scale(SNeg(Dot(apparent_velocity, bisector)), bisector),
                   branch |-> "line", access |-> access]
    ELSE [value |-> VNeg(apparent_velocity), branch |-> "direct", access |-> {}]

(***************************************************************************)
(* DummyBoundaryLayer.  recalculate gives the object's members after the   *)
(* call.                                                                   *)
(***************************************************************************)
\* Mutant: recalculate keeps the surface velocities it is given.
recalculate_keeps_velocities(bl, surface_velocities) == surface_velocities

recalculate(bl, surface_velocities) == bl

blowing_velocity(bl, panel) == 0

friction(bl, panel) == Vector3d(<<0, 0, 0>>)

(***************************************************************************)
(* Input meshes.  A mesh has R chordwise rows and C spanwise columns; its  *)
(* last row (the trailing edge) lies at c * S, and row r of the upper      *)
(* (lower) half lies (R-1-r) * U (resp. L) ahead of it, so that U and L    *)
(* are the chordwise tangents at the trailing edge and S the span step.    *)
(***************************************************************************)
Shapes ==
    { [name |-> "flat",         U |-> <<1, 0, 0>>,  L |-> <<1, 0, 0>>,  S |-> <<0, 1, 0>>],
      [name |-> "wedge",        U |-> <<4, 0, -3>>, L |-> <<4, 0, 3>>,  S |-> <<0, 1, 0>>],
      [name |-> "camber",       U |-> <<1, 0, 0>>,  L |-> <<7, 0, 24>>, S |-> <<0, 1, 0>>],
      [name |-> "swept",        U |-> <<1, 0, 0>>,  L |-> <<1, 0, 0>>,  S |-> <<1, 1, 0>>],
      [name |-> "dihedral",     U |-> <<2, 0, 0>>,  L |-> <<1, 0, 0>>,  S |-> <<0, 3, 4>>],
      [name |-> "antiparallel", U |-> <<1, 0, 0>>,  L |-> <<-1, 0, 0>>, S |-> <<0, 1, 0>>],
      [name |-> "zerotangent",  U |-> <<0, 0, 0>>,  L |-> <<1, 0, 0>>,  S |-> <<0, 1, 0>>],
      [name |-> "collinear",    U |-> <<1, 0, 0>>,  L |-> <<1, 0, 0>>,  S |-> <<1, 0, 0>>] }

\* How node ids are shared: "open" gives every grid entry its own node,
\* "closed" lets the two halves share the trailing-edge nodes, and "ring"
\* moreover closes the span: the last column holds the nodes of the first.
Topologies == {"open", "closed", "ring"}

Column(topo, C, c) == IF topo = "ring" /\ c = C - 1 THEN 0 ELSE c

UpperId(topo, R, C, r, c) == r * C + Column(topo, C, c)

LowerId(topo, R, C, r, c) ==
    IF topo # "open" /\ r = R - 1
    THEN UpperId(topo, R, C, r, c)
    ELSE R * C + r * C + Column(topo, C, c)

NodePosition(shape, R, C, id) ==
    LET k == id % (R * C)
        r == k \div C
        c == k % C
        T == IF id < R * C THEN shape.U ELSE shape.L
        a == R - 1 - r
    IN  Vector3d(<<c * shape.S[1] - a * T[1], c * shape.S[2] - a * T[2],
                   c * shape.S[3] - a * T[3]>>)

MeshIs(shape, topo, R, C) ==
    /\ nodes = [id \in 0..(2 * R * C - 1) |-> NodePosition(shape, R, C, id)]
    /\ upper_nodes = [rows |-> R, cols |-> C,
                      at |-> [rc \in (0..(R - 1)) \X (0..(C - 1)) |->
                                 UpperId(topo, R, C, rc[1], rc[2])]]
    /\ lower_nodes = [rows |-> R, cols |-> C,
                      at |-> [rc \in (0..(R - 1)) \X (0..(C - 1)) |->
                                 LowerId(topo, R, C, rc[1], rc[2])]]
    /\ upper_panels = [rows |-> R - 1, cols |-> C - 1,
                       at |-> [rc \in (0..(R - 2)) \X (0..(C - 2)) |->
                                  rc[1] * (C - 1) + rc[2]]]
    /\ lower_panels = [rows |-> R - 1, cols |-> C - 1,
                       at |-> [rc \in (0..(R - 2)) \X (0..(C - 2)) |->
                                  (R - 1) * (C - 1) + rc[1] * (C - 1) + rc[2]]]

Velocities == {<<2, 0, -5>>, <<0, 0, -5>>, <<1, 2, 3>>, <<0, 0, 0>>}

\* A call: the operation, its arguments, the id or the vector it returned, the
\* branch it took and the grid coefficients it read.
NoCall == [op |-> "none", index |-> 0, velocity |-> Zero, id |-> 0, value |-> Zero,
           branch |-> "none", access |-> {}]

Call(op, index, velocity, id, value, branch, access) ==
    [op |-> op, index |-> index, velocity |-> velocity, id |-> id, value |-> value,
     branch |-> branch, access |-> access]

Init ==
    /\ \E shape \in Shapes, topo \in Topologies, R \in 1..MaxRows, C \in 1..MaxCols :
          MeshIs(shape, topo, R, C)
    /\ wake_emission_follow_bisector \in BOOLEAN
    /\ normalize_checks_zero \in BOOLEAN
    /\ boundary_layer = <<>>
    /\ last = NoCall
    /\ wake = <<>>
    /\ bl_calls = <<>>

(***************************************************************************)
(* The queries of a lifting surface, each called with a valid index.       *)
(***************************************************************************)
TrailingEdgeNode ==
    /\ \E i \in 0..(n_spanwise_nodes - 1) :
          LET got == trailing_edge_node(i)
          IN  last' = Call("trailing_edge_node", i, Zero, got.value, Zero, "none", got.access)
    /\ UNCHANGED <<mesh, wake_emission_follow_bisector, normalize_checks_zero,
                   boundary_layer, wake, bl_calls>>

TrailingEdgeUpperPanel ==
    /\ n_chordwise_panels >= 1
    /\ \E i \in 0..(n_spanwise_panels - 1) :
          LET got == trailing_edge_upper_panel(i)
          IN  last' = Call("trailing_edge_upper_panel", i, Zero, got.value, Zero,
                           "none", got.access)
    /\ UNCHANGED <<mesh, wake_emission_follow_bisector, normalize_checks_zero,
                   boundary_layer, wake, bl_calls>>

TrailingEdgeLowerPanel ==
    /\ lower_panels.rows >= 1
    /\ \E i \in 0..(lower_panels.cols - 1) :
          LET got == trailing_edge_lower_panel(i)
          IN  last' = Call("trailing_edge_lower_panel", i, Zero, got.value, Zero,
                           "none", got.access)
    /\ UNCHANGED <<mesh, wake_emission_follow_bisector, normalize_checks_zero,
                   boundary_layer, wake, bl_calls>>

\* Mutant: the tangent is normalized in place, in the node it was read from.
TrailingEdgeBisector_normalizes_node ==
    /\ n_chordwise_nodes >= 2
    /\ \E i \in 0..(n_spanwise_nodes - 1) :
          LET got == trailing_edge_bisector(i)
              id == Coeff(upper_nodes, upper_nodes.rows - 1, i)
          IN  /\ last' = Call("trailing_edge_bisector", i, Zero, 0, got.value, "none",
                              got.access)
              /\ nodes' = [nodes EXCEPT ![id] = normalize(@)]
    /\ UNCHANGED <<upper_nodes, lower_nodes, upper_panels, lower_panels,
                   wake_emission_follow_bisector, normalize_checks_zero,
                   boundary_layer, wake, bl_calls>>

TrailingEdgeBisector ==
    /\ n_chordwise_nodes >= 2
    /\ \E i \in 0..(n_spanwise_nodes - 1) :
          LET got == trailing_edge_bisector(i)
          IN  last' = Call("trailing_edge_bisector", i, Zero, 0, got.value, "none",
                           got.access)
    /\ UNCHANGED <<mesh, wake_emission_follow_bisector, normalize_checks_zero,
                   boundary_layer, wake, bl_calls>>

WakeEmissionVelocity ==
    /\ \E v \in Velocities, i \in 0..(n_spanwise_nodes - 1) :
          LET got == wake_emission_velocity(Vector3d(v), i)
          IN  last' = Call("wake_emission_velocity", i, Vector3d(v), 0, got.value,
                           got.branch, got.access)
    /\ UNCHANGED <<mesh, wake_emission_follow_bisector, normalize_checks_zero,
                   boundary_layer, wake, bl_calls>>

Next ==
    \/ TrailingEdgeNode
    \/ TrailingEdgeUpperPanel
    \/ TrailingEdgeLowerPanel
    \/ TrailingEdgeBisector
    \/ WakeEmissionVelocity

Spec == Init /\ [][Next]_vars

(***************************************************************************)
(* A run of the wake time-stepping caller: it sheds wake nodes with the    *)
(* velocities wake_emission_velocity returns and keeps them, while the     *)
(* configuration flag may be assigned between calls.                       *)
(***************************************************************************)
RunShapes == {shape \in Shapes : shape.name \in {"flat", "camber"}}

RunVelocities == {<<2, 0, -5>>, <<1, 2, 3>>}

InitRun ==
    /\ \E shape \in RunShapes, R \in {1, 2}, C \in {1, MaxCols} :
          MeshIs(shape, "closed", R, C)
    /\ wake_emission_follow_bisector \in BOOLEAN
    /\ normalize_checks_zero \in BOOLEAN
    /\ boundary_layer = <<>>
    /\ last = NoCall
    /\ wake = <<>>
    /\ bl_calls = <<>>

ShedWake ==
    /\ Len(wake) < MaxWake
    /\ \E v \in RunVelocities, i \in 0..(n_spanwise_nodes - 1) :
          LET got == wake_emission_velocity(Vector3d(v), i)
          IN  /\ last' = Call("wake_emission_velocity", i, Vector3d(v), 0, got.value,
                              got.branch, got.access)
              /\ wake' = Append(wake, [index |-> i, velocity |-> Vector3d(v),
                                       follow_bisector |-> wake_emission_follow_bisector,
                                       value |-> got.value, branch |-> got.branch])
    /\ UNCHANGED <<mesh, wake_emission_follow_bisector, normalize_checks_zero,
                   boundary_layer, bl_calls>>

SetFollowBisector ==
    /\ wake_emission_follow_bisector' = ~wake_emission_follow_bisector
    /\ UNCHANGED <<mesh, normalize_checks_zero, boundary_layer, last, wake, bl_calls>>

NextRun ==
    \/ ShedWake
    \/ SetFollowBisector

SpecRun == InitRun /\ [][NextRun]_vars

(***************************************************************************)
(* Calls of the DummyBoundaryLayer.                                        *)
(***************************************************************************)
Panels == -1..3

SurfaceVelocities ==
    { <<>>, << <<1, 0, 0>> >>, << <<0, 0, -5>>, <<2, 0, -5>> >> }

\* A boundary-layer call: the operation, its argument, and the scalar or the
\* vector it returned.
BlCall(op, panel, surface_velocities, scalar, vector) ==
    [op |-> op, panel |-> panel, surface_velocities |-> surface_velocities,
     scalar |-> scalar, vector |-> vector]

InitBL ==
    /\ MeshIs(CHOOSE shape \in Shapes : shape.name = "flat", "closed", 2, 3)
    /\ wake_emission_follow_bisector \in BOOLEAN
    /\ normalize_checks_zero = FALSE
    /\ boundary_layer = <<>>
    /\ last = NoCall
    /\ wake = <<>>
    /\ bl_calls = <<>>

Recalculate ==
    /\ Len(bl_calls) < MaxBlCalls
    /\ \E sv \in SurfaceVelocities :
          /\ boundary_layer' = recalculate(boundary_layer, sv)
          /\ bl_calls' = Append(bl_calls, BlCall("recalculate", 0, sv, 0, Zero))
    /\ UNCHANGED <<mesh, wake_emission_follow_bisector, normalize_checks_zero, last, wake>>

BlowingVelocity ==
    /\ Len(bl_calls) < MaxBlCalls
    /\ \E panel \in Panels :
          bl_calls' = Append(bl_calls, BlCall("blowing_velocity", panel, <<>>,
                                              blowing_velocity(boundary_layer, panel), Zero))
    /\ UNCHANGED <<mesh, wake_emission_follow_bisector, normalize_checks_zero,
                   boundary_layer, last, wake>>

Friction ==
    /\ Len(bl_calls) < MaxBlCalls
    /\ \E panel \in Panels :
          bl_calls' = Append(bl_calls, BlCall("friction", panel, <<>>, 0,
                                              friction(boundary_layer, panel)))
    /\ UNCHANGED <<mesh, wake_emission_follow_bisector, normalize_checks_zero,
                   boundary_layer, last, wake>>

NextBL ==
    \/ Recalculate
    \/ BlowingVelocity
    \/ Friction

SpecBL == InitBL /\ [][NextBL]_vars

(***************************************************************************)
(* Properties.  The expected values below are written from the grids and   *)
(* the node positions, not from the operators above.                       *)
(***************************************************************************)
Emitted == last.op = "wake_emission_velocity"

BisectorMode == wake_emission_follow_bisector /\ upper_nodes.rows > 1

Max(a, b) == IF a > b THEN a ELSE b

Min(a, b) == IF a < b THEN a ELSE b

LastRow == upper_nodes.rows - 1

TrailingEdgeId(c) == upper_nodes.at[<<LastRow, c>>]

PrevId(i) == TrailingEdgeId(Max(i - 1, 0))

NextId(i) == TrailingEdgeId(Min(i + 1, upper_nodes.cols - 1))

DistinctTrailingEdge ==
    \A a, b \in 0..(upper_nodes.cols - 1) : a # b => TrailingEdgeId(a) # TrailingEdgeId(b)

UpperTangent(i) ==
    VSub(nodes[upper_nodes.at[<<LastRow, i>>]], nodes[upper_nodes.at[<<LastRow - 1, i>>]])

LowerTangent(i) ==
    VSub(nodes[lower_nodes.at[<<lower_nodes.rows - 1, i>>]],
         nodes[lower_nodes.at[<<lower_nodes.rows - 2, i>>]])

Bisector(i) == normalize(VAdd(normalize(UpperTangent(i)), normalize(LowerTangent(i))))

WakeNormal(i) == normalize(Cross(VSub(nodes[NextId(i)], nodes[PrevId(i)]), Bisector(i)))

PlaneProjection(v, i) == VNeg(VSub(v, Scale(Dot(v, WakeNormal(i)), WakeNormal(i))))

LineProjection(v, i) == Scale(SNeg(Dot(v, Bisector(i))), Bisector(i))

Negated(v) == [x |-> -v.x, y |-> -v.y, z |-> -v.z, d |-> v.d]

\* The tangents at station i are non-zero and not anti-parallel.
RegularTangents(i) ==
    LET u == UpperTangent(i)
        l == LowerTangent(i)
    IN  /\ SquaredNorm(u) # 0
        /\ SquaredNorm(l) # 0
        /\ ~(Cross(u, l) = Zero /\ Dot(u, l).n < 0)

\* Scenario 1 of the specification: flat, 2 chordwise rows, 3 spanwise
\* stations, chord along x and span along y.
FlatScenario ==
    /\ upper_nodes.rows = 2
    /\ upper_nodes.cols = 3
    /\ \A c \in 0..2 :
          /\ nodes[TrailingEdgeId(c)] = Vector3d(<<0, c, 0>>)
          /\ UpperTangent(c) = Vector3d(<<1, 0, 0>>)
          /\ LowerTangent(c) = Vector3d(<<1, 0, 0>>)

\* C1: with the flag unset, or with at most one chordwise node row whatever
\* the flag, wake_emission_velocity returns the componentwise negation of the
\* apparent velocity.
C1_DirectModeNegates ==
    (Emitted /\ (~wake_emission_follow_bisector \/ n_chordwise_nodes <= 1))
        => last.value = Negated(last.velocity)

C1_Witness ==
    /\ Emitted
    /\ wake_emission_follow_bisector
    /\ n_chordwise_nodes = 1
    /\ n_spanwise_nodes = 3
    /\ last.velocity = Vector3d(<<2, 0, -5>>)
    /\ last.value = Vector3d(<<-2, 0, 5>>)

\* C2: in bisector mode at a station whose clamped neighbours differ, the
\* result is -(v - (v.n) n) with n the normalized cross product of the span
\* direction and the bisector, and it is orthogonal to n; on the flat 2x3
\* mesh, station 1 and v = (2,0,-5) give (-2,0,0).
C2_PlaneProjectionOrthogonal ==
    (Emitted /\ BisectorMode /\ PrevId(last.index) # NextId(last.index))
        => /\ last.value = PlaneProjection(last.velocity, last.index)
           /\ Dot(last.value, WakeNormal(last.index)) = Rat(0, 1)
           /\ (FlatScenario /\ last.index = 1 /\ last.velocity = Vector3d(<<2, 0, -5>>))
                 => last.value = Vector3d(<<-2, 0, 0>>)

\* C2 on regular geometry: when the tangents are non-zero and not anti-parallel
\* and the span direction is non-zero and not along the bisector, the result
\* is defined and orthogonal to the unit wake normal.
PlaneProjectionOnRegularGeometry ==
    (Emitted /\ BisectorMode /\ PrevId(last.index) # NextId(last.index)
       /\ RegularTangents(last.index)
       /\ Cross(VSub(nodes[NextId(last.index)], nodes[PrevId(last.index)]),
                Bisector(last.index)) # Zero)
        => /\ ~IsNaN(last.value)
           /\ last.value = PlaneProjection(last.velocity, last.index)
           /\ Dot(WakeNormal(last.index), WakeNormal(last.index)) = Rat(1, 1)
           /\ Dot(last.value, WakeNormal(last.index)) = Rat(0, 1)

\* C3 on regular geometry: with tangents that are non-zero and not
\* anti-parallel the result is defined and parallel to the unit bisector.
LineProjectionOnRegularGeometry ==
    (Emitted /\ BisectorMode /\ PrevId(last.index) = NextId(last.index)
       /\ RegularTangents(last.index))
        => /\ ~IsNaN(last.value)
           /\ last.value = LineProjection(last.velocity, last.index)
           /\ Cross(last.value, Bisector(last.index)) = Zero

\* C3: in bisector mode at a station whose clamped neighbours are the same
\* node, the result is -(v.b) b with b the bisector, a vector parallel to b.
C3_LineProjectionParallel ==
    (Emitted /\ BisectorMode /\ PrevId(last.index) = NextId(last.index))
        => /\ last.value = LineProjection(last.velocity, last.index)
           /\ Cross(last.value, Bisector(last.index)) = Zero

\* C2 and C3 in a build whose normalize() leaves a zero vector alone.
ProjectionsWhenNormalizeChecksZero ==
    normalize_checks_zero => (C2_PlaneProjectionOrthogonal /\ C3_LineProjectionParallel)

\* C4 as stated: in bisector mode the line-projection branch is taken exactly
\* on a surface with a single spanwise station.
C4_LineBranchIffSingleStation ==
    (Emitted /\ BisectorMode) => (last.branch = "line" <=> n_spanwise_nodes = 1)

\* C4 as amended: in bisector mode the line-projection branch is taken exactly
\* when the clamped neighbour columns hold the same trailing-edge node id;
\* that is always so with a single spanwise station, and never so, at any
\* station, when the trailing-edge node ids are pairwise distinct.
C4_LineBranchIffSameNeighbourId ==
    (Emitted /\ BisectorMode)
        => /\ last.branch \in {"line", "plane"}
           /\ last.branch = "line" <=> PrevId(last.index) = NextId(last.index)
           /\ n_spanwise_nodes = 1 => last.branch = "line"
           /\ (n_spanwise_nodes >= 2 /\ DistinctTrailingEdge) => last.branch = "plane"

C4_Witness ==
    /\ Emitted
    /\ BisectorMode
    /\ n_spanwise_nodes = 2
    /\ DistinctTrailingEdge
    /\ last.index = 0
    /\ last.branch = "plane"

\* C5: each trailing-edge lookup returns the entry of its own grid (upper
\* nodes, upper panels, lower panels) at that grid's last row and column i, and
\* reads no other entry.
C5_TrailingEdgeLookups ==
    /\ last.op = "trailing_edge_node"
          => /\ last.id = upper_nodes.at[<<upper_nodes.rows - 1, last.index>>]
             /\ last.access = {<<"upper_nodes", upper_nodes.rows - 1, last.index>>}
    /\ last.op = "trailing_edge_upper_panel"
          => /\ last.id = upper_panels.at[<<upper_panels.rows - 1, last.index>>]
             /\ last.access = {<<"upper_panels", upper_panels.rows - 1, last.index>>}
    /\ last.op = "trailing_edge_lower_panel"
          => /\ last.id = lower_panels.at[<<lower_panels.rows - 1, last.index>>]
             /\ last.access = {<<"lower_panels", lower_panels.rows - 1, last.index>>}

C5_Witness ==
    /\ last.op = "trailing_edge_lower_panel"
    /\ lower_panels.rows = 2
    /\ last.index = 1
    /\ last.id = lower_panels.at[<<1, 1>>]
    /\ last.id # upper_panels.at[<<1, 1>>]
    /\ last.id # lower_panels.at[<<0, 1>>]

\* C6: whatever recalculate calls came before, blowing_velocity returns 0 and
\* friction the zero vector for every panel, and the boundary layer holds what
\* it held when constructed.
C6_DummyBoundaryLayerIsInert ==
    /\ boundary_layer = <<>>
    /\ \A k \in 1..Len(bl_calls) :
          /\ bl_calls[k].op = "blowing_velocity" => bl_calls[k].scalar = 0
          /\ bl_calls[k].op = "friction"
                => bl_calls[k].vector = [x |-> 0, y |-> 0, z |-> 0, d |-> 1]

C6_Witness ==
    /\ Len(bl_calls) = 3
    /\ bl_calls[1].op = "recalculate"
    /\ Len(bl_calls[1].surface_velocities) = 2
    /\ bl_calls[2].op = "blowing_velocity"
    /\ bl_calls[2].scalar = 0
    /\ bl_calls[3].op = "friction"
    /\ bl_calls[3].panel = 3

\* What a call made with flag value f returns.
ExpectedEmission(f, v, i) ==
    IF f /\ upper_nodes.rows > 1
    THEN IF PrevId(i) # NextId(i) THEN PlaneProjection(v, i) ELSE LineProjection(v, i)
    ELSE Negated(v)

\* C7: every emission velocity is the one for the flag value at its own call
\* (bisector mode if set and more than one chordwise row, direct otherwise);
\* the velocities returned earlier stay as they were when the flag changes.
C7_EmissionFollowsFlagAtCall ==
    /\ [](\A k \in 1..Len(wake) :
             wake[k].value = ExpectedEmission(wake[k].follow_bisector, wake[k].velocity,
                                              wake[k].index))
    /\ [][/\ Len(wake') >= Len(wake)
          /\ \A k \in 1..Len(wake) : wake'[k] = wake[k]
          /\ Len(wake') > Len(wake)
                => /\ wake'[Len(wake')].follow_bisector = wake_emission_follow_bisector
                   /\ wake'[Len(wake')].value =
                         ExpectedEmission(wake_emission_follow_bisector,
                                          wake'[Len(wake')].velocity,
                                          wake'[Len(wake')].index)]_vars

C7_Witness ==
    /\ Len(wake) = 2
    /\ upper_nodes.rows = 2
    /\ wake[1].follow_bisector
    /\ ~wake[2].follow_bisector
    /\ ~wake_emission_follow_bisector
    /\ wake[1].index = wake[2].index
    /\ wake[1].velocity = wake[2].velocity
    /\ wake[1].branch = "plane"
    /\ wake[2].branch = "direct"
    /\ wake[1].value # wake[2].value

\* C8: with at least two chordwise rows and tangents that are non-zero and
\* not anti-parallel, the bisector is the normalized sum of the normalized
\* upper and lower tangents and has norm 1; tangents (1,0,0) give (1,0,0).
C8_BisectorIsUnit ==
    (last.op = "trailing_edge_bisector" /\ n_chordwise_nodes >= 2
       /\ RegularTangents(last.index))
        => /\ last.value = Bisector(last.index)
           /\ ~IsNaN(last.value)
           /\ Dot(last.value, last.value) = Rat(1, 1)
           /\ (UpperTangent(last.index) = Vector3d(<<1, 0, 0>>)
                 /\ LowerTangent(last.index) = Vector3d(<<1, 0, 0>>))
                 => last.value = Vector3d(<<1, 0, 0>>)

C8_Witness ==
    /\ last.op = "trailing_edge_bisector"
    /\ RegularTangents(last.index)
    /\ UpperTangent(last.index) # LowerTangent(last.index)
    /\ last.value = Vec(4, 0, 3, 5)

\* The value a query returns on the current state.
Fresh ==
    /\ last.op = "trailing_edge_node" => last.id = TrailingEdgeId(last.index)
    /\ last.op = "trailing_edge_bisector" => last.value = Bisector(last.index)
    /\ Emitted
          => last.value = ExpectedEmission(wake_emission_follow_bisector, last.velocity,
                                           last.index)

\* C9: a query leaves the node positions, the four grids and the flag as they
\* were, and what it returns is the value for the current mesh, flag and
\* arguments, whatever was called before.
C9_QueriesArePure ==
    /\ []Fresh
    /\ [][/\ nodes' = nodes
          /\ upper_nodes' = upper_nodes
          /\ lower_nodes' = lower_nodes
          /\ upper_panels' = upper_panels
          /\ lower_panels' = lower_panels
          /\ wake_emission_follow_bisector' = wake_emission_follow_bisector]_vars

C9_Witness ==
    /\ last.op = "trailing_edge_bisector"
    /\ n_spanwise_nodes = 3
    /\ last.index = 2
    /\ last.value = Vector3d(<<1, 0, 0>>)
    /\ nodes[TrailingEdgeId(2)] = Vector3d(<<0, 2, 0>>)

GridOf(name) ==
    CASE name = "upper_nodes" -> upper_nodes
      [] name = "lower_nodes" -> lower_nodes
      [] name = "upper_panels" -> upper_panels
      [] name = "lower_panels" -> lower_panels

\* C10: wake_emission_velocity reads grid entries inside the grids only: in
\* bisector mode the trailing-edge entries of columns max(i-1, 0), i and
\* min(i+1, columns-1) and the last two rows of column i in both node grids;
\* otherwise none.  The second-to-last row is read only with more than one row.
C10_EmissionReadsInRange ==
    Emitted
        => /\ \A a \in last.access : InRange(GridOf(a[1]), a[2], a[3])
           /\ \A a \in last.access : a[2] = LastRow - 1 => n_chordwise_nodes > 1
           /\ last.access =
                 IF BisectorMode
                 THEN {<<"upper_nodes", LastRow, Max(last.index - 1, 0)>>,
                       <<"upper_nodes", LastRow, Min(last.index + 1, n_spanwise_nodes - 1)>>,
                       <<"upper_nodes", LastRow, last.index>>,
                       <<"upper_nodes", LastRow - 1, last.index>>,
                       <<"lower_nodes", LastRow, last.index>>,
                       <<"lower_nodes", LastRow - 1, last.index>>}
                 ELSE {}

C10_Witness ==
    /\ Emitted
    /\ BisectorMode
    /\ n_spanwise_nodes = 3
    /\ last.index = 2
    /\ <<"upper_nodes", LastRow, 1>> \in last.access
    /\ <<"upper_nodes", LastRow - 1, 2>> \in last.access
    /\ Cardinality(last.access) = 5

====
